---- MODULE Spec2Model ----
(***************************************************************************)
(* Request-handling pass of sfz (src/src/server.rs): MyService::           *)
(* handle_request, handle_dir and handle_file, over a small filesystem.    *)
(*                                                                         *)
(* Strings are byte sequences (Seq(0..255)); a PathBuf is the byte string  *)
(* it wraps, and the lexical operations of std::path (components, join,    *)
(* parent, strip_prefix, file_name, extension, ==) are computed from it.   *)
(* Filesystem queries (is_dir, read_dir, File::open) walk the byte string  *)
(* through the tree the way the OS does, so that "a/.." names the parent   *)
(* of a on disk while staying a two-component path lexically.              *)
(***************************************************************************)
EXTENDS Integers, Sequences, FiniteSets, TLC

\* Longest request path, counted after its leading '/'.
MaxReqLen == 4

\* ASCII codes of the bytes the model's strings are made of.
Ch == [slash |-> 47, dot |-> 46, pct |-> 37, d4 |-> 52, d1 |-> 49, A |-> 65]

\* Bytes a request path is drawn from.
ReqAlphabet == {Ch.slash, Ch.dot, Ch.pct, Ch.d4, Ch.d1, Ch.A}

Dot == <<Ch.dot>>
DotDot == <<Ch.dot, Ch.dot>>

RECURSIVE StringsUpTo(_)
StringsUpTo(n) ==
    IF n = 0 THEN {<<>>}
    ELSE LET S == StringsUpTo(n - 1)
         IN S \cup {Append(s, c) : s \in {t \in S : Len(t) = n - 1}, c \in ReqAlphabet}

\* Request paths as hyper hands them over: '/' and then up to MaxReqLen bytes.
RequestPaths == {<<Ch.slash>> \o s : s \in StringsUpTo(MaxReqLen)}

--------------------------------------------------------------------------
\* percent_encoding::percent_decode(..).decode_utf8()

HexVal(b) ==
    IF b \in 48..57 THEN b - 48
    ELSE IF b \in 65..70 THEN b - 55
    ELSE IF b \in 97..102 THEN b - 87
    ELSE -1

\* "%XX" with two hex digits becomes the byte 0xXX; any other byte, a '%'
\* not followed by two hex digits included, is copied.
RECURSIVE percent_decode(_)
percent_decode(s) ==
    IF s = <<>> THEN <<>>
    ELSE IF s[1] = Ch.pct /\ Len(s) >= 3 /\ HexVal(s[2]) >= 0 /\ HexVal(s[3]) >= 0
         THEN <<16 * HexVal(s[2]) + HexVal(s[3])>> \o percent_decode(SubSeq(s, 4, Len(s)))
         ELSE <<s[1]>> \o percent_decode(Tail(s))

IsCont(b) == b \in 128..191

\* Whether a byte string is well-formed UTF-8 (what decode_utf8 accepts).
RECURSIVE Utf8Valid(_)
Utf8Valid(s) ==
    IF s = <<>> THEN TRUE
    ELSE LET b == s[1]
             n == Len(s)
         IN  IF b < 128 THEN Utf8Valid(Tail(s))
             ELSE IF b \in 194..223
                  THEN n >= 2 /\ IsCont(s[2]) /\ Utf8Valid(SubSeq(s, 3, n))
             ELSE IF b \in 224..239
                  THEN /\ n >= 3 /\ IsCont(s[2]) /\ IsCont(s[3])
                       /\ (b = 224 => s[2] >= 160)
                       /\ (b = 237 => s[2] <= 159)
                       /\ Utf8Valid(SubSeq(s, 4, n))
             ELSE IF b \in 240..244
                  THEN /\ n >= 4 /\ IsCont(s[2]) /\ IsCont(s[3]) /\ IsCont(s[4])
                       /\ (b = 240 => s[2] >= 144)
                       /\ (b = 244 => s[2] <= 143)
                       /\ Utf8Valid(SubSeq(s, 5, n))
             ELSE FALSE

--------------------------------------------------------------------------
\* std::path on byte strings

FirstSlash(s) ==
    IF \E i \in 1..Len(s) : s[i] = Ch.slash
    THEN CHOOSE i \in 1..Len(s) : s[i] = Ch.slash /\ \A j \in 1..(i - 1) : s[j] # Ch.slash
    ELSE 0

\* The pieces between the separators, empty ones kept.
RECURSIVE Split(_)
Split(s) ==
    LET i == FirstSlash(s)
    IN  IF i = 0 THEN <<s>>
        ELSE <<SubSeq(s, 1, i - 1)>> \o Split(SubSeq(s, i + 1, Len(s)))

RECURSIVE JoinSegs(_)
JoinSegs(segs) ==
    IF segs = <<>> THEN <<>>
    ELSE IF Len(segs) = 1 THEN segs[1]
    ELSE segs[1] \o <<Ch.slash>> \o JoinSegs(Tail(segs))

has_root(p) == Len(p) > 0 /\ p[1] = Ch.slash

\* The pieces after the root separator.
Body(p) == IF has_root(p) THEN Tail(Split(p)) ELSE Split(p)

\* Pieces that are no component: an empty piece (a repeated or trailing
\* separator) and ".".
Skipped(g) == g = <<>> \/ g = Dot

RECURSIVE TrimL(_)
TrimL(segs) ==
    IF segs # <<>> /\ Skipped(Head(segs)) THEN TrimL(Tail(segs)) ELSE segs

RECURSIVE TrimR(_)
TrimR(segs) ==
    IF segs # <<>> /\ Skipped(segs[Len(segs)])
    THEN TrimR(SubSeq(segs, 1, Len(segs) - 1))
    ELSE segs

Raw(rooted, segs) == (IF rooted THEN <<Ch.slash>> ELSE <<>>) \o JoinSegs(segs)

\* Path::components: the normal and ".." components, in order.
Components(p) == SelectSeq(Body(p), LAMBDA g : ~Skipped(g))

\* PathBuf == PathBuf compares components, not bytes.
PathEq(p, q) == has_root(p) = has_root(q) /\ Components(p) = Components(q)

\* Path::join: an absolute argument replaces the base.
join(base, p) ==
    IF has_root(p) THEN p
    ELSE IF base # <<>> /\ base[Len(base)] # Ch.slash THEN base \o <<Ch.slash>> \o p
    ELSE base \o p

None == [some |-> FALSE, path |-> <<>>]
Some(p) == [some |-> TRUE, path |-> p]

\* Path::parent: the path without its last component; None for "/" and "".
parent(p) ==
    LET b == TrimR(Body(p))
    IN  IF b = <<>> THEN None
        ELSE Some(Raw(has_root(p), TrimR(SubSeq(b, 1, Len(b) - 1))))

RECURSIVE StripSegs(_, _)
StripSegs(segs, comps) ==
    LET s == TrimL(segs)
    IN  IF comps = <<>> THEN Some(JoinSegs(TrimR(s)))
        ELSE IF s = <<>> \/ Head(s) # Head(comps) THEN None
        ELSE StripSegs(Tail(s), Tail(comps))

\* Path::strip_prefix: the rest of p after the components of base, or None
\* (the Err case) when p does not start with them.
strip_prefix(p, base) ==
    IF has_root(p) # has_root(base) THEN None
    ELSE StripSegs(Body(p), Components(base))

\* Path::file_name: the last component unless it is "..".
file_name(p) ==
    LET b == TrimR(Body(p))
    IN  IF b = <<>> \/ b[Len(b)] = DotDot THEN None ELSE Some(b[Len(b)])

LastDot(s) ==
    IF \E i \in 1..Len(s) : s[i] = Ch.dot
    THEN CHOOSE i \in 1..Len(s) : s[i] = Ch.dot /\ \A j \in (i + 1)..Len(s) : s[j] # Ch.dot
    ELSE 0

\* Path::extension: what follows the last '.' of the file name, when
\* something precedes that '.'.
extension(p) ==
    LET f == file_name(p)
        i == LastDot(f.path)
    IN  IF ~f.some \/ i <= 1 THEN None
        ELSE Some(SubSeq(f.path, i + 1, Len(f.path)))

--------------------------------------------------------------------------
\* The filesystem: a tree of nodes, each the sequence of names that leads
\* to it from "/".  Every name on disk is valid UTF-8.

n1 == <<Ch.d1>>
n4 == <<Ch.d4>>
nA == <<Ch.A>>
nPct41 == <<Ch.pct, Ch.d4, Ch.d1>>
n4dotA == <<Ch.d4, Ch.dot, Ch.A>>

RootNode == <<>>
\* env::current_dir(): the directory the server was started in, "/1/A".
BaseNode == <<n1, nA>>
current_dir == Raw(TRUE, BaseNode)

\* The node whose kind another process may change while a request is handled.
Target == BaseNode \o <<n4dotA>>

\* Every node, in the order read_dir yields the children of a directory.
NodeOrder ==
    << RootNode,
       <<n1>>,
       BaseNode,
       <<n1, n4>>,
       BaseNode \o <<nA>>,
       BaseNode \o <<nA, n1>>,
       BaseNode \o <<nPct41>>,
       Target,
       BaseNode \o <<n1>> >>

Nodes == {NodeOrder[i] : i \in 1..Len(NodeOrder)}

Directories == {RootNode, <<n1>>, BaseNode, BaseNode \o <<nA>>}

FsStates ==
    {[n \in Nodes |-> IF n \in Directories THEN "dir" ELSE IF n = Target THEN k ELSE "file"]
        : k \in {"dir", "file"}}

\* The bytes of every regular file: "hi".
Contents == <<104, 105>>

ParentNode(n) == IF n = <<>> THEN n ELSE SubSeq(n, 1, Len(n) - 1)

\* Path lookup as the OS does it: every piece that follows, be it a name,
\* ".", ".." or the nothing after a trailing separator, needs the node
\* reached so far to be a directory.
RECURSIVE OsWalk(_, _, _)
OsWalk(tree, cur, segs) ==
    IF segs = <<>> THEN [err |-> "ok", node |-> cur]
    ELSE IF tree[cur] # "dir" THEN [err |-> "ENOTDIR", node |-> cur]
    ELSE LET g == Head(segs)
         IN  IF Skipped(g) THEN OsWalk(tree, cur, Tail(segs))
             ELSE IF g = DotDot THEN OsWalk(tree, ParentNode(cur), Tail(segs))
             ELSE IF Append(cur, g) \notin Nodes THEN [err |-> "ENOENT", node |-> cur]
             ELSE OsWalk(tree, Append(cur, g), Tail(segs))

\* A relative path is looked up from the working directory.
Lookup(tree, p) == OsWalk(tree, RootNode, Body(join(current_dir, p)))

\* "dir", "file", or the error of the lookup.
Stat(tree, p) ==
    LET w == Lookup(tree, p)
    IN  IF w.err = "ok" THEN tree[w.node] ELSE w.err

\* Path::is_dir: false on any error.
is_dir(tree, p) == Stat(tree, p) = "dir"

\* The names read_dir yields for a directory node.
ReadDirNames(node) ==
    LET kids == SelectSeq(NodeOrder, LAMBDA n : Len(n) = Len(node) + 1 /\ ParentNode(n) = node)
    IN  [i \in 1..Len(kids) |-> kids[i][Len(kids[i])]]

\* io::Error's Display text, shortened to the decimal errno.
ErrorMessage(e) ==
    CASE e = "ENOENT" -> <<50>>
      [] e = "ENOTDIR" -> <<50, 48>>
      [] e = "EISDIR" -> <<50, 49>>

\* "Error: "
ErrorPrefix == <<69, 114, 114, 111, 114, 58, 32>>

\* error_handler: |e| Vec::from(format!("Error: {}", e))
error_handler(e) == ErrorPrefix \o ErrorMessage(e)

--------------------------------------------------------------------------
\* handle_dir, handle_file

\* Tera::one_off(template.html, {files, dir_name}): the heading on a line,
\* then a line per entry holding its link path and its name.
RECURSIVE RenderRows(_)
RenderRows(files) ==
    IF files = <<>> THEN <<>>
    ELSE Head(files).path \o <<32>> \o Head(files).name \o <<10>> \o RenderRows(Tail(files))

Render(dir_name, files) == dir_name \o <<10>> \o RenderRows(files)

\* "500 Internal server error: "
RenderErrorPrefix == <<53, 48, 48, 32, 73, 110, 116, 101, 114, 110, 97, 108, 32, 115, 101, 114, 118, 101, 114, 32, 101, 114, 114, 111, 114, 58, 32>>

\* Tera's own error text, shortened to "tera".
RenderError == RenderErrorPrefix \o <<116, 101, 114, 97>>

\* The row of one read_dir entry: its name (with '/' after a directory)
\* and link path, both from the path relative to the working directory;
\* src is the node the entry stands for.  kept is false when strip_prefix
\* fails, and the entry is then left out.
EntryOf(tree, dir_path, node, c) ==
    LET rel == strip_prefix(join(dir_path, c), current_dir)
    IN  IF ~rel.some
        THEN [kept |-> FALSE, name |-> <<>>, path |-> <<>>, src |-> Append(node, c)]
        ELSE [kept |-> TRUE,
              name |-> file_name(rel.path).path
                         \o (IF is_dir(tree, rel.path) THEN <<Ch.slash>> ELSE <<>>),
              path |-> <<Ch.slash>> \o rel.path,
              src  |-> Append(node, c)]

Row(e) == [name |-> e.name, path |-> e.path, src |-> e.src]

ChildRows(tree, dir_path, node) ==
    LET names == ReadDirNames(node)
        all   == [i \in 1..Len(names) |-> EntryOf(tree, dir_path, node, names[i])]
        kept  == SelectSeq(all, LAMBDA e : e.kept)
    IN  [i \in 1..Len(kept) |-> Row(kept[i])]

\* The item for popping back to the parent directory, present when the
\* path differs lexically from the working directory.
ParentRows(dir_path, node) ==
    IF PathEq(current_dir, dir_path) THEN <<>>
    ELSE << [name |-> DotDot,
             path |-> <<Ch.slash>> \o strip_prefix(parent(dir_path).path, current_dir).path,
             src  |-> ParentNode(node)] >>

DirResult(tag, body, files, info) ==
    [tag |-> tag, body |-> body, files |-> files, info |-> info]

\* handle_dir(dir_path): tag "ok" with the page, "err" with the io::Error
\* that `?` returns, or "panic" with the unwrap that failed.
handle_dir(tree, dir_path, rendered) ==
    LET base_path   == current_dir
        bp          == parent(base_path)
        base_parent == IF bp.some THEN bp.path ELSE base_path
        stripped    == strip_prefix(dir_path, base_parent)
        dir_name    == stripped.path \o <<Ch.slash>>
        up          == parent(dir_path)
        w           == Lookup(tree, dir_path)
        st          == Stat(tree, dir_path)
        files       == ParentRows(dir_path, w.node) \o ChildRows(tree, dir_path, w.node)
    IN  IF ~stripped.some THEN DirResult("panic", <<>>, <<>>, "strip_prefix(base_parent)")
        ELSE IF ~PathEq(base_path, dir_path) /\ ~up.some
             THEN DirResult("panic", <<>>, <<>>, "parent")
        ELSE IF ~PathEq(base_path, dir_path) /\ ~strip_prefix(up.path, base_path).some
             THEN DirResult("panic", <<>>, <<>>, "strip_prefix(base_path)")
        ELSE IF st # "dir"
             THEN DirResult("err", <<>>, <<>>, IF st = "file" THEN "ENOTDIR" ELSE st)
        ELSE DirResult("ok",
                       IF rendered THEN Render(dir_name, files) ELSE RenderError,
                       files, "")

\* handle_file(file_path): the bytes of the file, or the io::Error of
\* File::open or read_to_end (a directory opens and then fails to read).
handle_file(tree, file_path) ==
    LET st == Stat(tree, file_path)
    IN  IF st = "file" THEN [tag |-> "ok", body |-> Contents, info |-> ""]
        ELSE [tag |-> "err", body |-> <<>>, info |-> IF st = "dir" THEN "EISDIR" ELSE st]

--------------------------------------------------------------------------
\* MIME type guessing and the headers

TEXT_HTML_UTF_8 == "text/html; charset=utf-8"
TEXT_PLAIN == "text/plain"
\* concat!(CARGO_PKG_NAME, "/", CARGO_PKG_VERSION)
SERVER_VERSION == "sfz/version"

ToLower(b) == IF b \in 65..90 THEN b + 32 ELSE b

\* mime_guess::get_mime_type_opt: a case-insensitive lookup in the crate's
\* table, of which the model holds the entry for "a".
get_mime_type_opt(ext) ==
    IF [i \in 1..Len(ext) |-> ToLower(ext[i])] = <<97>>
    THEN [some |-> TRUE, mime |-> "application/octet-stream"]
    ELSE [some |-> FALSE, mime |-> ""]

\* GuessMime with the two tests in the other order: the extension decides
\* first, and the directory rule covers only names without a known one.
GuessMimeExtensionFirst(dir, p) ==
    LET ext == extension(p)
        m   == IF ext.some THEN get_mime_type_opt(ext.path) ELSE [some |-> FALSE, mime |-> ""]
    IN  IF m.some THEN m.mime
        ELSE IF dir THEN TEXT_HTML_UTF_8
        ELSE TEXT_PLAIN

\* The mime_type expression: a directory is HTML whatever its name; a
\* file goes by its extension, text/plain without one or with an unknown one.
GuessMime(dir, p) ==
    IF dir THEN TEXT_HTML_UTF_8
    ELSE LET ext == extension(p)
         IN  IF ext.some
             THEN LET m == get_mime_type_opt(ext.path)
                  IN  IF m.some THEN m.mime ELSE TEXT_PLAIN
             ELSE TEXT_PLAIN

AllowHeaders == <<"Range", "Content-Type", "Accept", "Origin">>

\* Header names a CORS response may carry.
AccessControlNames ==
    {"Access-Control-Allow-Origin", "Access-Control-Allow-Headers",
     "Access-Control-Allow-Methods", "Access-Control-Allow-Credentials",
     "Access-Control-Expose-Headers", "Access-Control-Max-Age"}

\* DefaultHeaders with a length that counts one byte more than the body has.
DefaultHeadersOneMore(mime, bytes) ==
    [h \in {"Content-Type", "Content-Length", "Server"} |->
        CASE h = "Content-Type" -> <<mime>>
          [] h = "Content-Length" -> <<Len(bytes) + 1>>
          [] h = "Server" -> <<SERVER_VERSION>>]

\* The default headers; a header is held as the list of its values.
DefaultHeaders(mime, bytes) ==
    [h \in {"Content-Type", "Content-Length", "Server"} |->
        CASE h = "Content-Type" -> <<mime>>
          [] h = "Content-Length" -> <<Len(bytes)>>
          [] h = "Server" -> <<SERVER_VERSION>>]

CorsHeaders ==
    [h \in {"Access-Control-Allow-Origin", "Access-Control-Allow-Headers"} |->
        IF h = "Access-Control-Allow-Origin" THEN <<"*">> ELSE AllowHeaders]

\* BuildHeaders without the test of options.cors.
BuildHeadersCorsAlways(mime, bytes, corsOpt) ==
    DefaultHeaders(mime, bytes) @@ CorsHeaders

\* The Headers value handle_request builds: the three default headers,
\* and the two CORS headers when options.cors is set.
BuildHeaders(mime, bytes, corsOpt) ==
    IF corsOpt THEN DefaultHeaders(mime, bytes) @@ CorsHeaders
    ELSE DefaultHeaders(mime, bytes)

--------------------------------------------------------------------------
\* State

VARIABLES
    fs,         \* the kind of every node on disk
    cors,       \* ServerOptions.cors
    pc,         \* where the pass stands
    req,        \* req.path(), as received
    req_path,   \* the PathBuf of line 101
    dirAtBody,  \* what is_dir answered when the body was chosen (line 104)
    dirAtMime,  \* what is_dir answered when the MIME type was chosen (line 111)
    body,       \* the body bytes
    outcome,    \* "listing", "file" or "error": what the body holds
    files,      \* the rows handle_dir gave the template
    mime_type,  \* the ContentType value
    resp,       \* the Response returned
    panicAt     \* the unwrap that panicked

vars == <<fs, cors, pc, req, req_path, dirAtBody, dirAtMime, body, outcome,
          files, mime_type, resp, panicAt>>

NoResponse == [headers |-> <<>>, body |-> <<>>]

\* The locals of a pass before any of them is set.
Fresh ==
    [req_path |-> <<>>, dirAtBody |-> FALSE, dirAtMime |-> FALSE, body |-> <<>>,
     outcome |-> "", files |-> <<>>, mime_type |-> "", resp |-> NoResponse,
     panicAt |-> ""]

Init ==
    /\ fs \in FsStates
    /\ cors \in BOOLEAN
    /\ pc = "Start"
    /\ req = <<>>
    /\ req_path = Fresh.req_path
    /\ dirAtBody = Fresh.dirAtBody
    /\ dirAtMime = Fresh.dirAtMime
    /\ body = Fresh.body
    /\ outcome = Fresh.outcome
    /\ files = Fresh.files
    /\ mime_type = Fresh.mime_type
    /\ resp = Fresh.resp
    /\ panicAt = Fresh.panicAt

\* Service::call: a request arrives and handle_request starts on it.
Call ==
    /\ pc = "Start"
    /\ \E r \in RequestPaths : req' = r
    /\ pc' = "Resolve"
    /\ UNCHANGED <<fs, cors, req_path, dirAtBody, dirAtMime, body, outcome, files,
                   mime_type, resp, panicAt>>

\* The response is handed back as a finished future; the locals of the pass
\* are dropped and the service waits for the next request.
Return ==
    /\ pc = "Done"
    /\ pc' = "Start"
    /\ req' = <<>>
    /\ req_path' = Fresh.req_path
    /\ dirAtBody' = Fresh.dirAtBody
    /\ dirAtMime' = Fresh.dirAtMime
    /\ body' = Fresh.body
    /\ outcome' = Fresh.outcome
    /\ files' = Fresh.files
    /\ mime_type' = Fresh.mime_type
    /\ resp' = Fresh.resp
    /\ panicAt' = Fresh.panicAt
    /\ UNCHANGED <<fs, cors>>

\* Lines 94-104: strip the leading slash, percent-decode, unwrap the UTF-8
\* decoding, join onto the working directory, and test is_dir to pick the
\* branch.
Resolve ==
    /\ pc = "Resolve"
    /\ LET decoded == percent_decode(Tail(req))
       IN  IF ~Utf8Valid(decoded)
           THEN /\ pc' = "Panic"
                /\ panicAt' = "decode_utf8"
                /\ UNCHANGED <<req_path, dirAtBody>>
           ELSE /\ req_path' = join(current_dir, decoded)
                /\ dirAtBody' = is_dir(fs, req_path')
                /\ pc' = IF dirAtBody' THEN "DirectoryBranch" ELSE "FileBranch"
                /\ UNCHANGED panicAt
    /\ UNCHANGED <<fs, cors, req, dirAtMime, body, outcome, files, mime_type, resp>>

\* Line 105: handle_dir(&req_path).unwrap_or_else(error_handler)
DirectoryBranch ==
    /\ pc = "DirectoryBranch"
    /\ \E rendered \in BOOLEAN :
         LET r == handle_dir(fs, req_path, rendered)
         IN  CASE r.tag = "panic" ->
                    /\ pc' = "Panic"
                    /\ panicAt' = r.info
                    /\ UNCHANGED <<body, outcome, files>>
               [] r.tag = "err" ->
                    /\ body' = error_handler(r.info)
                    /\ outcome' = "error"
                    /\ pc' = "Mime"
                    /\ UNCHANGED <<files, panicAt>>
               [] r.tag = "ok" ->
                    /\ body' = r.body
                    /\ outcome' = "listing"
                    /\ files' = r.files
                    /\ pc' = "Mime"
                    /\ UNCHANGED panicAt
    /\ UNCHANGED <<fs, cors, req, req_path, dirAtBody, dirAtMime, mime_type, resp>>

\* Line 107: handle_file(&req_path).unwrap_or_else(error_handler)
FileBranch ==
    /\ pc = "FileBranch"
    /\ LET r == handle_file(fs, req_path)
       IN  /\ body' = IF r.tag = "ok" THEN r.body ELSE error_handler(r.info)
           /\ outcome' = IF r.tag = "ok" THEN "file" ELSE "error"
    /\ pc' = "Mime"
    /\ UNCHANGED <<fs, cors, req, req_path, dirAtBody, dirAtMime, files, mime_type,
                   resp, panicAt>>

\* Lines 111-121: the second is_dir test and the MIME type.
MimeGuess ==
    /\ pc = "Mime"
    /\ dirAtMime' = is_dir(fs, req_path)
    /\ mime_type' = GuessMime(dirAtMime', req_path)
    /\ pc' = "Assemble"
    /\ UNCHANGED <<fs, cors, req, req_path, dirAtBody, body, outcome, files, resp, panicAt>>

\* Lines 123-141: the headers and the response.
Assemble ==
    /\ pc = "Assemble"
    /\ resp' = [headers |-> BuildHeaders(mime_type, body, cors), body |-> body]
    /\ pc' = "Done"
    /\ UNCHANGED <<fs, cors, req, req_path, dirAtBody, dirAtMime, body, outcome, files,
                   mime_type, panicAt>>

\* Another process replaces the target: a directory by a file of the same
\* name, or back.  The handler takes no lock, so this can fall between any
\* two of its steps.
FsReplace ==
    /\ pc \in {"DirectoryBranch", "FileBranch", "Mime"}
    /\ fs' = [fs EXCEPT ![Target] = IF @ = "dir" THEN "file" ELSE "dir"]
    /\ UNCHANGED <<cors, pc, req, req_path, dirAtBody, dirAtMime, body, outcome, files,
                   mime_type, resp, panicAt>>

Next ==
    \/ Call
    \/ Resolve
    \/ DirectoryBranch
    \/ FileBranch
    \/ MimeGuess
    \/ Assemble
    \/ Return
    \/ FsReplace

Spec == Init /\ [][Next]_vars

--------------------------------------------------------------------------
\* Properties

Answered == pc = "Done"

ContentType == resp.headers["Content-Type"]

\* The node a request path reaches when it is resolved as handle_request
\* resolves it: strip the leading '/', percent-decode, join onto the
\* working directory, look the result up.
ResolveLink(link) ==
    LET decoded == percent_decode(Tail(link))
    IN  IF ~Utf8Valid(decoded) THEN [err |-> "DecodeError", node |-> <<>>]
        ELSE Lookup(fs, join(current_dir, decoded))

IsUnder(node, dir) == Len(node) >= Len(dir) /\ SubSeq(node, 1, Len(dir)) = dir

\* The node the pass read or listed.
Served == Lookup(fs, req_path).node

DecodeFails == req # <<>> /\ ~Utf8Valid(percent_decode(Tail(req)))

\* C1: a pass never ends in a panic: whatever the request path and the
\* filesystem, no unwrap of handle_request or handle_dir fails.
C1_NoPanic == pc # "Panic"

\* C2: the Content-Length header of every response is the byte length of
\* the body the response carries.
C2_ContentLength ==
    Answered => resp.headers["Content-Length"] = <<Len(resp.body)>>

\* C2 witness: a directory listing was answered with a non-empty body.
C2_Witness ==
    Answered /\ outcome = "listing" /\ Len(resp.body) > 0 /\ resp.body = body

\* C3: when the directory branch or the file branch failed, the body is
\* "Error: <message>" and the Content-Type is text/plain.
C3_ErrorIsTextPlain ==
    Answered /\ outcome = "error" =>
        /\ SubSeq(resp.body, 1, Len(ErrorPrefix)) = ErrorPrefix
        /\ ContentType = <<TEXT_PLAIN>>

\* C4: a request whose path does not percent-decode to UTF-8 is not
\* aborted: its pass does not end in a panic.
C4_DecodeErrorAnswered == DecodeFails /\ pc # "Resolve" => pc # "Panic"

\* C5: every link path of a listing, the ".." row included, resolves to the
\* node its row was made from.
C5_LinksRoundTrip ==
    outcome = "listing" =>
        \A i \in 1..Len(files) :
            LET w == ResolveLink(files[i].path)
            IN  w.err = "ok" /\ w.node = files[i].src

\* C6: the file read or the directory listed lies under the root directory.
C6_UnderRoot ==
    outcome \in {"listing", "file"} => IsUnder(Served, BaseNode)

\* C7: a target that is a directory when the MIME type is chosen is
\* answered with text/html; charset=utf-8, whatever its name and the cors
\* option.
C7_DirectoryIsHtml ==
    Answered /\ dirAtMime => ContentType = <<TEXT_HTML_UTF_8>>

\* C7 witness: a directory whose name has a known extension was answered,
\* with cors on.
C7_Witness ==
    /\ Answered
    /\ dirAtMime
    /\ cors
    /\ extension(req_path).some
    /\ get_mime_type_opt(extension(req_path).path).some

\* C8: without the cors option a response carries no Access-Control-*
\* header; with it, Access-Control-Allow-Origin: * and
\* Access-Control-Allow-Headers: Range, Content-Type, Accept, Origin.
\* Content-Type, Content-Length and Server are there in both cases.
C8_CorsToggling ==
    Answered =>
        LET H == DOMAIN resp.headers
        IN  /\ {"Content-Type", "Content-Length", "Server"} \subseteq H
            /\ cors =>
                 /\ "Access-Control-Allow-Origin" \in H
                 /\ "Access-Control-Allow-Headers" \in H
                 /\ resp.headers["Access-Control-Allow-Origin"] = <<"*">>
                 /\ resp.headers["Access-Control-Allow-Headers"]
                      = <<"Range", "Content-Type", "Accept", "Origin">>
            /\ ~cors => H \cap AccessControlNames = {}

\* C8 witness: an error body was answered with cors on.
C8_Witness == Answered /\ cors /\ outcome = "error"

HasParentRow == \E i \in 1..Len(files) : files[i].name = DotDot

\* C9: a listing has the ".." row exactly when the directory listed is not
\* the root directory, and for a directory under the root the row links to
\* '/' and then the parent's path relative to the root.
C9_ParentRow ==
    outcome = "listing" =>
        /\ HasParentRow <=> Served # BaseNode
        /\ HasParentRow /\ IsUnder(Served, BaseNode) /\ Served # BaseNode =>
             files[1].path
               = <<Ch.slash>>
                   \o JoinSegs(SubSeq(ParentNode(Served), Len(BaseNode) + 1, Len(Served) - 1))

\* C10: the body and the Content-Type of a response come from the same
\* answer to "is the target a directory".
C10_OneClassification ==
    Answered => (dirAtBody <=> dirAtMime)

====
